---- MODULE Spec2Model ----
(***************************************************************************)
(* Model of src/app.py (AI CV generator): the text normalizer              *)
(* clean_text_for_pdf, the markdown-to-story converter create_cv_pdf, and  *)
(* the part of main that generates the CV body, renders it and offers the  *)
(* downloads.                                                              *)
(*                                                                         *)
(* A Python str is modelled as a sequence of Unicode code points, so that  *)
(* ord(char) < 128, str.strip, str.split, str.replace and str.startswith   *)
(* are computed character by character as Python computes them.            *)
(***************************************************************************)
EXTENDS Integers, Sequences, FiniteSets, TLC

VARIABLES
    pc,          \* position of the run in main (or in the normalizer harness)
    user_data,   \* the header record built at main lines 389-396
    response,    \* the text the generative API holds for this request
    api_raised,  \* whether model.generate_content raised (generate_cv line 72)
    result,      \* what generate_cv returned to main (line 400)
    story,       \* the flowables create_cv_pdf handed to the layout engine
    engine_raised, \* whether an exception occurred inside create_cv_pdf's try
    pdf_data,    \* the value create_cv_pdf returned: "None", "bytes" or "unset"
    downloads,   \* the st.download_button calls made, in order
    messages,    \* the st.error / st.warning / st.success calls made, in order
    normalized   \* successive outputs of clean_text_for_pdf (normalizer runs)

vars == <<pc, user_data, response, api_raised, result, story, engine_raised,
          pdf_data, downloads, messages, normalized>>

---------------------------------------------------------------------------
(* Code points of the characters the source names. *)
NL == 10
SP == 32
DQUOTE == 34
HASH == 35
SQUOTE == 39
COMMA == 44
DASH == 45
DOT == 46
COLON == 58
BAR == 124
AsciiLimit == 128
U201A == 8218
U00C4 == 196
U00A2 == 162
U00EC == 236
U00EE == 238
U00B6 == 182

(* Bounds of the model. *)
MaxChunks == 6
MaxMainChunks == 4
MaxCleanChunks == 5

---------------------------------------------------------------------------
(* Python string primitives. *)

\* str.isspace characters, as used by str.strip() with no argument
Whitespace == {9, 10, 11, 12, 13, 28, 29, 30, 31, 32, 133, 160}

RECURSIVE LStrip(_)
LStrip(s) ==
    IF s = <<>> THEN s
    ELSE IF Head(s) \in Whitespace THEN LStrip(Tail(s)) ELSE s

RECURSIVE RStrip(_)
RStrip(s) ==
    IF s = <<>> THEN s
    ELSE IF s[Len(s)] \in Whitespace THEN RStrip(SubSeq(s, 1, Len(s) - 1)) ELSE s

\* str.strip()
Strip(s) == RStrip(LStrip(s))

\* str.startswith(p)
StartsWith(s, p) == Len(s) >= Len(p) /\ SubSeq(s, 1, Len(p)) = p

\* str.find(sep, i-1) + 1: the first index >= i where sep occurs, 0 when none
RECURSIVE Find(_, _, _)
Find(s, sep, i) ==
    IF i + Len(sep) - 1 > Len(s) THEN 0
    ELSE IF SubSeq(s, i, i + Len(sep) - 1) = sep THEN i
    ELSE Find(s, sep, i + 1)

\* str.split(sep) for a non-empty separator
RECURSIVE Split(_, _)
Split(s, sep) ==
    LET i == Find(s, sep, 1) IN
    IF i = 0 THEN <<s>>
    ELSE <<SubSeq(s, 1, i - 1)>> \o Split(SubSeq(s, i + Len(sep), Len(s)), sep)

\* str.split(sep, 1)
SplitOnce(s, sep) ==
    LET i == Find(s, sep, 1) IN
    IF i = 0 THEN <<s>>
    ELSE <<SubSeq(s, 1, i - 1), SubSeq(s, i + Len(sep), Len(s))>>

\* str.replace(old, new) for a non-empty old
RECURSIVE Replace(_, _, _)
Replace(s, old, new) ==
    LET i == Find(s, old, 1) IN
    IF i = 0 THEN s
    ELSE SubSeq(s, 1, i - 1) \o new
         \o Replace(SubSeq(s, i + Len(old), Len(s)), old, new)

\* ''.join(strings): the concatenation of a sequence of strings
RECURSIVE Flatten(_)
Flatten(ss) == IF ss = <<>> THEN <<>> ELSE Head(ss) \o Flatten(Tail(ss))

---------------------------------------------------------------------------
(* clean_text_for_pdf (lines 120-140). *)

\* The key that the two adjacent triple-apostrophe tokens of lines 129-130
\* form: a triple-quoted string holding the text between them, that is
\* colon, space, quote, apostrophe, quote, comma, a newline and the eight
\* spaces of indentation.
TripleQuoteKey ==
    <<COLON, SP, DQUOTE, SQUOTE, DQUOTE, COMMA, NL>> \o [i \in 1..8 |-> SP]

\* The replacements dict, in insertion order (the order the loop visits it).
Replacements ==
    << <<  <<U201A, U00C4, U00A2>>, <<DASH>>  >>,
       <<  <<U201A, U00C4, U00EC>>, <<DASH>>  >>,
       <<  <<U201A, U00C4, U00EE>>, <<DASH>>  >>,
       <<  <<DQUOTE>>,              <<DQUOTE>>  >>,
       <<  TripleQuoteKey,          <<SQUOTE>>  >>,
       <<  <<U201A, U00C4, U00B6>>, <<DOT, DOT, DOT>>  >> >>

\* for old, new in replacements.items(): text = text.replace(old, new)
RECURSIVE ApplyReplacements(_, _)
ApplyReplacements(text, k) ==
    IF k > Len(Replacements) THEN text
    ELSE ApplyReplacements(
             Replace(text, Replacements[k][1], Replacements[k][2]), k + 1)

\* ''.join(char for char in text if ord(char) < 128)
RECURSIVE RemoveNonAscii(_)
RemoveNonAscii(text) ==
    IF text = <<>> THEN <<>>
    ELSE IF Head(text) < AsciiLimit
         THEN <<Head(text)>> \o RemoveNonAscii(Tail(text))
         ELSE RemoveNonAscii(Tail(text))

clean_text_for_pdf(text) == RemoveNonAscii(ApplyReplacements(text, 1))

---------------------------------------------------------------------------
(* create_cv_pdf (lines 142-236): the story it builds. *)

\* A reportlab flowable: Paragraph(text, style), ListFlowable([Paragraph]) or
\* Spacer(1, 12).
Paragraph(text, style) == [kind |-> "Paragraph", style |-> style, text |-> text]
ListFlowable(text) == [kind |-> "ListFlowable", style |-> "CustomBody", text |-> text]
Spacer == [kind |-> "Spacer", style |-> "", text |-> <<>>]

\* the separator of content.split (line 190): newline, two hashes, a space
SectionSeparator == <<NL, HASH, HASH, SP>>
\* the dash marker and the alternate marker of line 210 (three code points
\* and a space)
DashMarker == <<DASH, SP>>
GlyphMarker == <<U201A, U00C4, U00A2, SP>>

\* lines 182-187: name, "email | phone", spacer
HeaderBlock(ud) ==
    << Paragraph(ud.name, "CustomTitle"),
       Paragraph(ud.email \o <<SP, BAR, SP>> \o ud.phone, "CustomBody"),
       Spacer >>

\* title.replace('#', '') (line 201)
RECURSIVE RemoveHashes(_)
RemoveHashes(t) ==
    IF t = <<>> THEN <<>>
    ELSE IF Head(t) = HASH THEN RemoveHashes(Tail(t))
         ELSE <<Head(t)>> \o RemoveHashes(Tail(t))

CleanTitle(title) == Strip(RemoveHashes(title))

\* A blank line emitted as an (empty) Paragraph: lines 208-209 left out.
LineFlowablesNoBlankCheck(line) ==
    IF StartsWith(Strip(line), DashMarker) \/ StartsWith(Strip(line), GlyphMarker)
    THEN <<ListFlowable(Strip(SubSeq(Strip(line), 3, Len(Strip(line)))))>>
    ELSE <<Paragraph(Strip(line), "CustomBody")>>

\* lines 208-221: one content line
LineFlowables(line) ==
    LET l == Strip(line) IN
    IF l = <<>> THEN <<>>
    ELSE IF StartsWith(l, DashMarker) \/ StartsWith(l, GlyphMarker)
         THEN <<ListFlowable(Strip(SubSeq(l, 3, Len(l))))>>
         ELSE <<Paragraph(l, "CustomBody")>>

\* line 207: for line in content.strip().split(newline)
RECURSIVE LinesFlowables(_)
LinesFlowables(lines) ==
    IF lines = <<>> THEN <<>>
    ELSE LineFlowables(Head(lines)) \o LinesFlowables(Tail(lines))

ContentFlowables(content) == LinesFlowables(Split(Strip(content), <<NL>>))

\* Every fragment given a heading: the guards of lines 193 and 197 left out.
SectionFlowablesNoGuards(section) ==
    LET parts == SplitOnce(Strip(section), <<NL>>) IN
    <<Paragraph(CleanTitle(parts[1]), "CustomHeading")>>
    \o (IF Len(parts) > 1 THEN ContentFlowables(parts[2]) ELSE <<>>)
    \o <<Spacer>>

\* lines 193-223: one fragment of the split
SectionFlowables(section) ==
    IF Strip(section) = <<>> THEN <<>>
    ELSE LET parts == SplitOnce(Strip(section), <<NL>>) IN
         IF Len(parts) > 1
         THEN <<Paragraph(CleanTitle(parts[1]), "CustomHeading")>>
              \o ContentFlowables(parts[2])
              \o <<Spacer>>
         ELSE <<>>

RECURSIVE SectionsFlowables(_)
SectionsFlowables(sections) ==
    IF sections = <<>> THEN <<>>
    ELSE SectionFlowables(Head(sections)) \o SectionsFlowables(Tail(sections))

\* lines 179-223: the story for a header record and a body
Story(ud, content) ==
    HeaderBlock(ud) \o SectionsFlowables(Split(content, SectionSeparator))

\* The except clause returning the buffer's value instead of None.
PdfDataIgnoringFailure(raised) == "bytes"

\* lines 225-236: doc.build(story); return pdf_data / except: return None
PdfData(raised) == IF raised THEN "None" ELSE "bytes"

---------------------------------------------------------------------------
(* Inputs. *)

\* The pieces bodies are assembled from: newline, a heading mark (after a
\* newline it makes the section separator), the two bullet markers, a letter
\* and a space.
Vocabulary ==
    { <<NL>>, <<HASH, HASH, SP>>, DashMarker, GlyphMarker, <<97>>, <<SP>> }

\* Every concatenation of at most n pieces of V
RECURSIVE Texts(_, _)
Texts(V, n) ==
    IF n = 0 THEN { <<>> }
    ELSE LET shorter == Texts(V, n - 1) IN
         shorter \cup { t \o v : t \in shorter, v \in V }

\* "Error", the prefix main tests for (line 402)
ErrorPrefix == <<69, 114, 114, 111, 114>>

\* f"Error generating CV: {str(e)}" (line 73), with str(e) = "timeout"
ErrorResult ==
    ErrorPrefix
    \o <<SP, 103, 101, 110, 101, 114, 97, 116, 105, 110, 103, SP, 67, 86, COLON, SP>>
    \o <<116, 105, 109, 101, 111, 117, 116>>

\* What the generative API may answer: any body assembled from at most n
\* pieces, also one that happens to begin with the word Error.
Responses(n) ==
    Texts(Vocabulary, n) \cup { ErrorPrefix \o t : t \in Texts(Vocabulary, 1) }

\* The bodies create_cv_pdf is called with: main calls it only with a result
\* that does not begin with Error (line 402), as none of these does.
Bodies(n) == Texts(Vocabulary, n)

\* The header records of the form (all fields non-empty, line 384):
\* {"JD", "j@x", "555"} and {"Al", "a@y", "42"}
HeaderRecords ==
    { [name |-> <<74, 68>>, email |-> <<106, 64, 120>>, phone |-> <<53, 53, 53>>],
      [name |-> <<65, 108>>, email |-> <<97, 64, 121>>, phone |-> <<52, 50>>] }

\* The pieces the normalizer's inputs are assembled from: the three pieces
\* the triple-quote key splits into, a table key, a letter, a character the
\* table does not hold (U+2022) and a quote.
CleanVocabulary ==
    { <<COLON, SP, DQUOTE>>, <<SQUOTE>>,
      <<DQUOTE, COMMA, NL>> \o [i \in 1..8 |-> SP],
      <<U201A, U00C4, U00B6>>, <<U201A, U00C4, U00A2>>, <<97>>, <<8226>> }

CleanInputs(n) == Texts(CleanVocabulary, n)

---------------------------------------------------------------------------
(* main (lines 383-464): one run of the script after the form is submitted. *)

MarkdownButton(data) ==
    [label |-> "Download CV as Markdown", mime |-> "text/markdown",
     text |-> data, binary |-> "none"]

PdfButton(data) ==
    [label |-> "Download CV as PDF", mime |-> "application/pdf",
     text |-> <<>>, binary |-> data]

Init ==
    /\ pc = "submitted"
    /\ user_data \in HeaderRecords
    /\ response \in Responses(MaxMainChunks)
    /\ api_raised = FALSE
    /\ result = <<>>
    /\ story = <<>>
    /\ engine_raised = FALSE
    /\ pdf_data = "unset"
    /\ downloads = <<>>
    /\ messages = <<>>
    /\ normalized = <<>>

\* CVGenerator.generate_cv (lines 39-73), called at line 400
GenerateCv ==
    /\ pc = "submitted"
    /\ \E raised \in BOOLEAN :
          /\ api_raised' = raised
          /\ result' = IF raised THEN ErrorResult ELSE response
    /\ pc' = "returned"
    /\ UNCHANGED <<user_data, response, story, engine_raised, pdf_data,
                   downloads, messages, normalized>>

\* lines 402-403: if result.startswith("Error"): st.error(result)
ShowGenerationError ==
    /\ pc = "returned"
    /\ StartsWith(result, ErrorPrefix)
    /\ messages' = Append(messages, "error: generation")
    /\ pc' = "done"
    /\ UNCHANGED <<user_data, response, api_raised, result, story,
                   engine_raised, pdf_data, downloads, normalized>>

\* lines 404-418: the success message, the tabs and create_cv_pdf(user_data,
\* result), whose try block may raise in a Paragraph constructor or in
\* doc.build
CreateCvPdf ==
    /\ pc = "returned"
    /\ ~StartsWith(result, ErrorPrefix)
    /\ story' = Story(user_data, result)
    /\ \E raised \in BOOLEAN :
          /\ engine_raised' = raised
          /\ pdf_data' = PdfData(raised)
          /\ messages' = IF raised
                         THEN messages \o <<"success: generated", "error: PDF Generation Error">>
                         ELSE Append(messages, "success: generated")
    /\ pc' = "rendered"
    /\ UNCHANGED <<user_data, response, api_raised, result, downloads, normalized>>

\* lines 420-438: if pdf_data: both download buttons
OfferBoth ==
    /\ pc = "rendered"
    /\ pdf_data # "None"
    /\ downloads' = downloads \o <<PdfButton(pdf_data), MarkdownButton(result)>>
    /\ pc' = "offered"
    /\ UNCHANGED <<user_data, response, api_raised, result, story,
                   engine_raised, pdf_data, messages, normalized>>

\* lines 439-446: else: the warning and the markdown button alone
OfferMarkdownOnly ==
    /\ pc = "rendered"
    /\ pdf_data = "None"
    /\ messages' = Append(messages, "warning: PDF generation failed")
    /\ downloads' = Append(downloads, MarkdownButton(result))
    /\ pc' = "offered"
    /\ UNCHANGED <<user_data, response, api_raised, result, story,
                   engine_raised, pdf_data, normalized>>

\* lines 448-451: the copy button, clicked or not
CopyToClipboard ==
    /\ pc = "offered"
    /\ \E clicked \in BOOLEAN :
          messages' = IF clicked THEN Append(messages, "success: copied") ELSE messages
    /\ pc' = "done"
    /\ UNCHANGED <<user_data, response, api_raised, result, story,
                   engine_raised, pdf_data, downloads, normalized>>

\* lines 453-461: a widget call of the try block raised, before the buttons
\* (st.columns, st.warning) or after them (st.button): the error and the
\* fallback markdown button
FallbackOnException ==
    /\ pc \in {"rendered", "offered"}
    /\ messages' = Append(messages, "error: creating PDF")
    /\ downloads' = Append(downloads, MarkdownButton(result))
    /\ pc' = "done"
    /\ UNCHANGED <<user_data, response, api_raised, result, story,
                   engine_raised, pdf_data, normalized>>

Next ==
    \/ GenerateCv
    \/ ShowGenerationError
    \/ CreateCvPdf
    \/ OfferBoth
    \/ OfferMarkdownOnly
    \/ CopyToClipboard
    \/ FallbackOnException

Spec == Init /\ [][Next]_vars

---------------------------------------------------------------------------
(* The renderer on its own: main at line 418, about to call create_cv_pdf   *)
(* with the body generate_cv returned.                                      *)

InitRender ==
    /\ pc = "returned"
    /\ user_data = CHOOSE ud \in HeaderRecords : TRUE
    /\ response \in Bodies(MaxChunks)
    /\ api_raised = FALSE
    /\ result = response
    /\ story = <<>>
    /\ engine_raised = FALSE
    /\ pdf_data = "unset"
    /\ downloads = <<>>
    /\ messages = <<>>
    /\ normalized = <<>>

NextRender == CreateCvPdf

SpecRender == InitRender /\ [][NextRender]_vars

---------------------------------------------------------------------------
(* The normalizer on its own: clean_text_for_pdf applied to a text and then *)
(* to its own output.                                                       *)

InitClean ==
    /\ pc = "normalizer"
    /\ user_data = CHOOSE ud \in HeaderRecords : TRUE
    /\ response \in CleanInputs(MaxCleanChunks)
    /\ api_raised = FALSE
    /\ result = <<>>
    /\ story = <<>>
    /\ engine_raised = FALSE
    /\ pdf_data = "unset"
    /\ downloads = <<>>
    /\ messages = <<>>
    /\ normalized = <<>>

Normalize ==
    /\ pc = "normalizer"
    /\ Len(normalized) < 2
    /\ normalized' = Append(normalized,
                            clean_text_for_pdf(IF normalized = <<>> THEN response
                                               ELSE normalized[Len(normalized)]))
    /\ UNCHANGED <<pc, user_data, response, api_raised, result, story,
                   engine_raised, pdf_data, downloads, messages>>

NextClean == Normalize

SpecClean == InitClean /\ [][NextClean]_vars

---------------------------------------------------------------------------
(* The document create_cv_pdf builds, read back from the story. *)

\* create_cv_pdf has been called in this run and has returned
Rendered == pc \in {"rendered", "offered", "done"} /\ pdf_data # "unset"

\* the flowables after the header block (name, contact, spacer)
BodyPart(st) == SubSeq(st, 4, Len(st))

IsHeading(f) == f.kind = "Paragraph" /\ f.style = "CustomHeading"
IsBlock(f) == f.kind = "ListFlowable" \/ (f.kind = "Paragraph" /\ f.style = "CustomBody")
IsBullet(f) == f.kind = "ListFlowable"

Headings(st) == SelectSeq(BodyPart(st), IsHeading)
Blocks(st) == SelectSeq(BodyPart(st), IsBlock)

\* the texts of the section titles and blocks, concatenated in order
DocText(st) == Flatten([i \in DOMAIN BodyPart(st) |-> BodyPart(st)[i].text])

HeadingMark == <<HASH, HASH, SP>>

\* no line of b starts a second-level heading
NoHeadingLine(b) ==
    ~StartsWith(b, HeadingMark) /\ Find(b, SectionSeparator, 1) = 0

IsMarkdownOf(d, text) == d.mime = "text/markdown" /\ d.text = text

---------------------------------------------------------------------------
(* Claims. *)

\* C1: for a body with no heading line and a non-empty trimmed form, the
\* document body is one untitled section holding exactly one Paragraph whose
\* text is the whole trimmed body.
C1_NoHeadingsOneParagraph ==
    (Rendered /\ NoHeadingLine(result) /\ Strip(result) # <<>>)
    => /\ Blocks(story) = <<Paragraph(Strip(result), "CustomBody")>>
       /\ Len(Headings(story)) <= 1
       /\ \A i \in DOMAIN Headings(story) : Headings(story)[i].text = <<>>

\* C2: whenever the generation call returned a body string, the finished run
\* has offered a markdown download whose data is that body, character for
\* character, whatever the PDF render did.
C2_MarkdownAlwaysOffered ==
    (pc = "done" /\ ~api_raised)
    => \E i \in DOMAIN downloads : IsMarkdownOf(downloads[i], response)

\* C3: an exception inside create_cv_pdf comes back to main as None, never as
\* an exception; main then offers the markdown download and no PDF button,
\* and the run goes on to its end.
C3_FailureReturnsNone ==
    /\ engine_raised => (Rendered /\ pdf_data = "None")
    /\ (Rendered /\ pdf_data = "None" /\ pc # "done") => ENABLED Next
    /\ (pdf_data = "None" /\ pc \in {"offered", "done"})
       => /\ \A i \in DOMAIN downloads : downloads[i].mime # "application/pdf"
          /\ \E i \in DOMAIN downloads : IsMarkdownOf(downloads[i], result)

\* C3 witness: the engine raised and the run ended with the markdown button
\* as its only download
C3_Witness ==
    /\ pc = "done"
    /\ engine_raised
    /\ downloads = <<MarkdownButton(result)>>

\* C4: no text the document holds after the header block has a character
\* with code point 128 or above.
C4_DocumentIsAscii ==
    Rendered
    => \A i \in DOMAIN BodyPart(story) :
          \A j \in DOMAIN BodyPart(story)[i].text :
             BodyPart(story)[i].text[j] < AsciiLimit

\* C5: the blocks of the document are, in order, one per non-blank content
\* line: a bullet item (the trimmed line less its first two characters,
\* trimmed) when the trimmed line starts with dash-space, otherwise a
\* Paragraph holding the trimmed line.
RECURSIVE ContentLines(_)
ContentLines(sections) ==
    IF sections = <<>> THEN <<>>
    ELSE LET parts == SplitOnce(Strip(Head(sections)), <<NL>>) IN
         (IF Len(parts) > 1 THEN Split(Strip(parts[2]), <<NL>>) ELSE <<>>)
         \o ContentLines(Tail(sections))

RECURSIVE ClaimedBlocks(_)
ClaimedBlocks(lines) ==
    IF lines = <<>> THEN <<>>
    ELSE LET l == Strip(Head(lines)) IN
         (IF l = <<>> THEN <<>>
          ELSE IF StartsWith(l, DashMarker)
               THEN <<ListFlowable(Strip(SubSeq(l, 3, Len(l))))>>
               ELSE <<Paragraph(l, "CustomBody")>>)
         \o ClaimedBlocks(Tail(lines))

C5_DashLinesOnlyAreBullets ==
    Rendered
    => Blocks(story) = ClaimedBlocks(ContentLines(Split(result, SectionSeparator)))

\* C6: for a body that opens with a heading, the titles and block texts of
\* the document, concatenated in order, are the normalized body with the
\* heading marks and bullet markers taken off each line: no title, title
\* character or content line is lost.
RECURSIVE DropLeadingHashes(_)
DropLeadingHashes(t) ==
    IF t # <<>> /\ Head(t) = HASH THEN DropLeadingHashes(Tail(t)) ELSE t

RECURSIVE StrippedLines(_)
StrippedLines(lines) ==
    IF lines = <<>> THEN <<>>
    ELSE LET l == Strip(Head(lines)) IN
         (IF l = <<>> THEN <<>>
          ELSE IF Head(l) = HASH THEN Strip(DropLeadingHashes(l))
          ELSE IF StartsWith(l, DashMarker) THEN Strip(SubSeq(l, 3, Len(l)))
          ELSE l)
         \o StrippedLines(Tail(lines))

C6_RoundTrip ==
    (Rendered /\ StartsWith(result, HeadingMark))
    => DocText(story) = StrippedLines(Split(clean_text_for_pdf(result), <<NL>>))

AlreadyNormalized(t) ==
    /\ \A i \in DOMAIN t : t[i] < AsciiLimit
    /\ \A k \in DOMAIN Replacements : Find(t, Replacements[k][1], 1) = 0

C8_Idempotent ==
    /\ (Len(normalized) >= 1 /\ AlreadyNormalized(response))
       => normalized[1] = response
    /\ Len(normalized) = 2 => normalized[2] = normalized[1]

\* C9: the text before the first heading line gives the document nothing:
\* the story is the story of the body with that text removed.
WithoutPreamble(b) ==
    IF StartsWith(b, HeadingMark) THEN b
    ELSE LET i == Find(b, SectionSeparator, 1) IN
         IF i = 0 THEN <<>> ELSE SubSeq(b, i, Len(b))

C9_PreambleDiscarded ==
    Rendered => story = Story(user_data, WithoutPreamble(result))

\* C10: every block of the document (Paragraph or bullet item) has a text
\* that is non-empty after trimming.
C10_BlocksNonEmpty ==
    Rendered
    => \A i \in DOMAIN Blocks(story) : Strip(Blocks(story)[i].text) # <<>>

\* C10 witness: a section whose content lines include a blank one and end
\* with a line holding only the dash marker, rendered to a document whose
\* last block is the Paragraph made of that dash
C10_Witness ==
    /\ Rendered
    /\ \E i \in DOMAIN ContentLines(Split(result, SectionSeparator)) :
          Strip(ContentLines(Split(result, SectionSeparator))[i]) = <<>>
    /\ StartsWith(SubSeq(result, Len(result) - 2, Len(result)), <<NL>> \o DashMarker)
    /\ Len(Blocks(story)) >= 2
    /\ Blocks(story)[Len(Blocks(story))] = Paragraph(<<DASH>>, "CustomBody")

====
